---------------------------- MODULE Spec2Model ----------------------------
(***************************************************************************)
(* A model of t12y/composer: the dependency resolver of config.go, the     *)
(* service runtime of service.go and the coordinator, output readers,      *)
(* await-exit tasks and shutdown tasks of composer.go.                     *)
(*                                                                         *)
(* Strings that the code inspects (output lines, ready_on) are sequences   *)
(* of one-character strings, so that strings.EqualFold, strings.Contains   *)
(* and strings.TrimRight are computed and not assumed.                     *)
(***************************************************************************)
EXTENDS Naturals, Sequences, FiniteSets, TLC

VARIABLES
    cfg,          \* Config.Services: service name -> ServiceConfig
    initServices, \* the initServices argument of New (and the names of RunAll)
    pc,           \* position of the caller / coordinator goroutine
    services,     \* Composer.services: the names, in start order
    newErr,       \* the error returned by New
    idx,          \* the loop index i of startServices
    retErr,       \* the error returned by Run / RunAll
    api,          \* "Run" or "RunAll": which entry point was called
    waitFor,      \* Composer.waitFor (the keys of the map)
    waitLock,     \* Composer.waitLock: "free" or the service whose quit holds it
    lastError,    \* Composer.lastError: the buffered channel's contents
    signalCh,     \* signalCh of startServices: number of buffered OS signals (cap 1)
    proc,         \* per service: state of its OS process
    reaped,       \* per service: who consumed the exit status ("no", "cmd", "process")
    pipe,         \* per service and stream: lines written and not yet read
    rdr,          \* per service and stream: state of the output reader goroutine
    lastLine,     \* per service and stream: the reader's lastLine
    readyCh,      \* per service: number of values buffered in Service.ready (cap 1)
    readyOnce,    \* per service: TRUE once Service.readyOnce.Do has run
    aw,           \* per service: position of the await-exit goroutine
    cl,           \* per service: position of the cleanupService goroutine
    timer,        \* per service: cleanupService's killTimer, "armed" or "off"
    sigInt,       \* per service: number of SIGINT sent to its process group
    sigKill,      \* per service: number of SIGKILL sent to its process group
    interrupts,   \* number of Interrupt() calls made by the user of the package
    blocked,      \* number of user Interrupt() calls blocked in the send on lastError
    osSignals,    \* number of OS interrupt/hangup signals delivered to composer
    emitted,      \* number of output lines written by all services
    budget,       \* the external events of this run: how many lines, calls, signals
    written,      \* per service and stream: the lines the process has written so far
    sink,         \* per service and stream: the lines forwarded to os.Stdout / os.Stderr
    interruptFirst, \* TRUE once an interrupt arrived before any exit was reported
    env,          \* the arguments and the result of a call of Environment.Extends
    atCleanup     \* per service whose cleanupService is about to run: the state of
                  \* its process when cleanup began ("-" otherwise)

vars == <<cfg, initServices, pc, services, newErr, idx, retErr, api, waitFor,
          waitLock, lastError, signalCh, proc, reaped, pipe, rdr, lastLine,
          readyCh, readyOnce, aw, cl, timer, sigInt, sigKill, interrupts,
          blocked, osSignals, emitted, budget, written, sink, interruptFirst,
          env, atCleanup>>

(***************************************************************************)
(* Bounds of the model.                                                    *)
(***************************************************************************)
MaxDeps == 2        \* longest depends_on list explored by the resolver specification
MaxReq == 2         \* longest list of requested names explored by the resolver specification
MaxLines == 1       \* output lines written during one run
MaxInterrupts == 1  \* Interrupt() calls made by the user during one run
MaxSignals == 1     \* OS interrupt/hangup signals delivered during one run
MaxInput == 3       \* lines of stdout read by the reader specification
MaxErrInput == 1    \* lines of stderr read by the reader specification

Names == {"b1", "s1", "s2"}
Streams == {"stdout", "stderr"}

(***************************************************************************)
(* Generic helpers.                                                        *)
(***************************************************************************)
Range(f) == {f[i] : i \in DOMAIN f}

SeqsUpTo(S, n) == UNION {[1..k -> S] : k \in 0..n}

NoDuplicates(sq) == \A i, j \in DOMAIN sq : sq[i] = sq[j] => i = j

(***************************************************************************)
(* Strings.                                                                *)
(***************************************************************************)
EmptyString == <<>>
OkLower == <<"o", "k">>
OkUpper == <<"O", "K">>

\* the lines a service may write during a run: one that contains the ready_on
\* of the scenarios, and one that differs from it by case only
Lines == {OkLower, OkUpper}

\* unicode.ToLower on the characters the model uses
ToLowerChar(c) == CASE c = "O" -> "o" [] c = "K" -> "k" [] OTHER -> c

EqualFold(a, b) ==
    /\ Len(a) = Len(b)
    /\ \A i \in 1..Len(a) : ToLowerChar(a[i]) = ToLowerChar(b[i])

Contains(s, sub) ==
    \E i \in 0..Len(s) :
        /\ i + Len(sub) <= Len(s)
        /\ \A j \in 1..Len(sub) : s[i + j] = sub[j]

(***************************************************************************)
(* Errors.  A Go error is modelled by the place that made it: kind is      *)
(* "unset" (Run has not returned), "interrupt", "exit" (the value quit     *)
(* sends: the result of cmd.Wait of service svc), "start", "prepare".      *)
(* err is "nil" exactly when the Go value is a nil error.                  *)
(***************************************************************************)
Err(kind, svc, err) == [kind |-> kind, svc |-> svc, err |-> err]

Unset == Err("unset", "-", "-")
ErrInterrupted == Err("interrupt", "-", "interrupted by user")
ErrStart(s) == Err("start", s, "error starting service")
ErrPrepare(s) == Err("prepare", s, "error preparing services")

IsNil(e) == e.err = "nil"

(***************************************************************************)
(* ServiceConfig.  Command stands for the program the command runs:        *)
(*   ""        no command                                                  *)
(*   "oneshot" a program that may exit by itself, with or without error    *)
(*   "daemon"  a program that never exits by itself and dies on SIGINT     *)
(*   "trap"    a program that never exits by itself and ignores SIGINT     *)
(*   " "       a command of white space only: /bin/sh -c " " writes        *)
(*             nothing and exits with status 0                             *)
(***************************************************************************)
ServiceConfig(command, readyOn, dependsOn) ==
    [Command |-> command, ReadyOn |-> readyOn, DependsOn |-> dependsOn]

Blank == " "

Exits(s) == cfg[s].Command \in {"oneshot", Blank}

\* the statuses the program may exit with by itself
ExitStatuses(s) == IF cfg[s].Command = Blank THEN {"exit0"} ELSE {"exit0", "exit1"}

\* the program may write to its output
Writes(s) == cfg[s].Command # Blank
TrapsInt(s) == cfg[s].Command = "trap"


(***************************************************************************)
(* config.go: Environment, a map from keys to values.  A nil map and an    *)
(* empty map are different values: isNil tells them apart, and a nil map   *)
(* has no key.                                                             *)
(***************************************************************************)
EnvKeys == {"HOME", "PATH"}
EnvValues == {"a", "b"}

Environment(isNil, map) == [isNil |-> isNil, map |-> map]

NilEnvironment == Environment(TRUE, <<>>)

\* make(Environment)
MakeEnvironment == Environment(FALSE, <<>>)

Environments ==
    {NilEnvironment}
        \cup {Environment(FALSE, m) : m \in UNION {[K -> EnvValues] : K \in SUBSET EnvKeys}}

\* for key, value := range from { result[key] = value }
CopyInto(result, from) ==
    Environment(result.isNil,
                [key \in DOMAIN result.map \cup DOMAIN from.map |->
                    IF key \in DOMAIN from.map THEN from.map[key] ELSE result.map[key]])

\* a faulty variant of Extends: the two loops in the other order
ExtendsParentLast(child, parent) ==
    CopyInto(CopyInto(MakeEnvironment, child), parent)

\* env.Extends(parent), env being the child
Extends(child, parent) ==
    CopyInto(CopyInto(MakeEnvironment, parent), child)

\* the state of env when Extends is not being called
NoCall == [child |-> NilEnvironment, parent |-> NilEnvironment,
           result |-> NilEnvironment, returned |-> FALSE]

(***************************************************************************)
(* config.go: the dependency resolver.  S is Config.Services.               *)
(***************************************************************************)
ErrNone == "nil"
ErrUnknownService == "unknown service"
ErrCircular == "circular service dependency detected"

\* a faulty variant of UnprocessedDeps: no dependency is queued
NoDepsQueued(S, name, processed) == <<>>

\* the dependencies appended to the processing queue: those not yet processed
UnprocessedDeps(S, name, processed) ==
    SelectSeq(S[name].DependsOn, LAMBDA d : d \notin processed)

\* a faulty variant of InsertFirst: the service is put after the others
InsertLast(serviceName, toStart) == Append(toStart, serviceName)

\* "insert service before others": append([]string{serviceName}, toStart...)
InsertFirst(serviceName, toStart) == <<serviceName>> \o toStart

\* the loop of identifyServicesToBeStarted
RECURSIVE IdentifyLoop(_, _, _, _)
IdentifyLoop(S, toProcess, processed, toStart) ==
    IF toProcess = <<>>
    THEN [err |-> ErrNone, list |-> toStart]
    ELSE LET serviceName == Head(toProcess)
             rest == Tail(toProcess)
         IN  IF serviceName \in processed
             THEN IdentifyLoop(S, rest, processed, toStart)
             ELSE IF serviceName \notin DOMAIN S
             THEN [err |-> ErrUnknownService, list |-> <<>>]
             ELSE IdentifyLoop(S,
                               rest \o UnprocessedDeps(S, serviceName, processed),
                               processed \cup {serviceName},
                               InsertFirst(serviceName, toStart))

identifyServicesToBeStarted(S, requested) ==
    IdentifyLoop(S, requested, {}, <<>>)

\* a faulty variant of DependenciesResolved: the dependencies are not looked at
AlwaysResolved(S, serviceName, resolved) == TRUE

\* the inner loop over service.DependsOn: stops at the first unresolved one
DependenciesResolved(S, serviceName, resolved) ==
    \A k \in DOMAIN S[serviceName].DependsOn :
        S[serviceName].DependsOn[k] \in resolved

\* one pass of the for-range over toStart, from position k on
RECURSIVE ResolvePass(_, _, _, _, _, _)
ResolvePass(S, toStart, k, resolved, result, anyServiceResolved) ==
    IF k > Len(toStart)
    THEN [resolved |-> resolved, result |-> result, any |-> anyServiceResolved]
    ELSE LET serviceName == toStart[k]
         IN  IF serviceName \in resolved
             THEN ResolvePass(S, toStart, k + 1, resolved, result, anyServiceResolved)
             ELSE IF DependenciesResolved(S, serviceName, resolved)
             THEN ResolvePass(S, toStart, k + 1, resolved \cup {serviceName},
                              Append(result, serviceName), TRUE)
             ELSE ResolvePass(S, toStart, k + 1, resolved, result, anyServiceResolved)

\* the outer loop: for len(resolved) < len(toStart)
RECURSIVE ResolveLoop(_, _, _, _)
ResolveLoop(S, toStart, resolved, result) ==
    IF Cardinality(resolved) >= Len(toStart)
    THEN [err |-> ErrNone, list |-> result]
    ELSE LET p == ResolvePass(S, toStart, 1, resolved, result, FALSE)
         IN  IF ~p.any
             THEN [err |-> ErrCircular, list |-> <<>>]
             ELSE ResolveLoop(S, toStart, p.resolved, p.result)

\* a faulty variant of ServicesToStart: the sorting loop is left out
Unordered(S, requested) == identifyServicesToBeStarted(S, requested)

ServicesToStart(S, requested) ==
    LET found == identifyServicesToBeStarted(S, requested)
    IN  IF found.err # ErrNone
        THEN found
        ELSE ResolveLoop(S, found.list, {}, <<>>)


(***************************************************************************)
(* service.go: NewService.                                                 *)
(***************************************************************************)
\* a faulty variant of InitialReady: NewService never fills the channel
NeverPrefilled(S, s) == 0

\* ready is a channel of capacity 1; NewService fills it when ready_on is empty
InitialReady(S, s) == IF S[s].ReadyOn = EmptyString THEN 1 ELSE 0

\* initCmd fails with "command required" when the command is empty
InitCmdFails(s) == Len(cfg[s].Command) = 0

(***************************************************************************)
(* The state before New is called.                                         *)
(***************************************************************************)
Idle ==
    /\ pc = "new"
    /\ services = <<>>
    /\ newErr = "unset"
    /\ idx = 1
    /\ retErr = Unset
    /\ api = "none"
    /\ waitFor = {}
    /\ waitLock = "free"
    /\ lastError = <<>>
    /\ signalCh = 0
    /\ proc = [n \in Names |-> "none"]
    /\ reaped = [n \in Names |-> "no"]
    /\ pipe = [n \in Names |-> [k \in Streams |-> <<>>]]
    /\ rdr = [n \in Names |-> [k \in Streams |-> "none"]]
    /\ lastLine = [n \in Names |-> [k \in Streams |-> EmptyString]]
    /\ readyCh = [n \in Names |-> 0]
    /\ readyOnce = [n \in Names |-> FALSE]
    /\ aw = [n \in Names |-> "none"]
    /\ cl = [n \in Names |-> "none"]
    /\ timer = [n \in Names |-> "off"]
    /\ sigInt = [n \in Names |-> 0]
    /\ sigKill = [n \in Names |-> 0]
    /\ interrupts = 0
    /\ blocked = 0
    /\ osSignals = 0
    /\ emitted = 0
    /\ written = [n \in Names |-> [k \in Streams |-> <<>>]]
    /\ sink = [n \in Names |-> [k \in Streams |-> <<>>]]
    /\ interruptFirst = FALSE
    /\ atCleanup = [n \in Names |-> "-"]

(***************************************************************************)
(* composer.go: New.                                                       *)
(***************************************************************************)
New ==
    /\ pc = "new"
    /\ LET r == ServicesToStart(cfg, initServices)
       IN  /\ newErr' = r.err
           /\ services' = r.list
           /\ pc' = IF r.err # ErrNone THEN "failed" ELSE "constructed"
           /\ readyCh' = [n \in Names |->
                            IF n \in Range(r.list) THEN InitialReady(cfg, n) ELSE 0]
    /\ UNCHANGED <<written, sink, interruptFirst, env, atCleanup, budget, cfg, initServices, idx, retErr, api, waitFor, waitLock,
                   lastError, signalCh, proc, reaped, pipe, rdr, lastLine,
                   readyOnce, aw, cl, timer, sigInt, sigKill, interrupts,
                   blocked, osSignals, emitted>>



(***************************************************************************)
(* composer.go: the lastError channel, made with capacity                  *)
(* len(servicesToStart).                                                   *)
(***************************************************************************)
Cap == Len(services)

\* a send completes at once when the buffer has room
HasRoom == Len(lastError) < Cap

\* a receive can complete: a buffered value, or (capacity 0) a blocked sender
CanReceive == Len(lastError) > 0 \/ blocked > 0

Received == IF Len(lastError) > 0 THEN Head(lastError) ELSE ErrInterrupted

\* what the receive leaves behind
ReceiveFrom ==
    /\ lastError' = IF Len(lastError) > 0 THEN Tail(lastError) ELSE lastError
    /\ blocked' = IF Len(lastError) > 0 THEN blocked ELSE blocked - 1

(***************************************************************************)
(* composer.go: Run and RunAll, up to the end of prepareServices.          *)
(* RunAll is called with the names given to New, as cmd/composer does.     *)
(***************************************************************************)
\* the services whose output readers prepareServices registers: all of them,
\* or those before the first service whose initCmd fails
Prepared ==
    LET bad == {i \in DOMAIN services : InitCmdFails(services[i])}
    IN  IF bad = {}
        THEN Range(services)
        ELSE {services[i] : i \in {j \in DOMAIN services : \A b \in bad : j < b}}

PrepareError ==
    LET bad == {i \in DOMAIN services : InitCmdFails(services[i])}
    IN  IF bad = {}
        THEN Unset
        ELSE ErrPrepare(services[CHOOSE i \in bad : \A b \in bad : i <= b])

RunAllWaitFor(names) == Range(names)

Enter(entry) ==
    /\ pc = "constructed"
    /\ api' = entry
    /\ waitFor' = IF entry = "RunAll" THEN RunAllWaitFor(initServices) ELSE {}
    /\ \/ \* syscall.Setrlimit fails
          /\ retErr' = Err("rlimit", "-", "error setting system limits")
          /\ pc' = "done"
          /\ UNCHANGED rdr
       \/ \* prepareServices
          /\ rdr' = [n \in Names |-> [k \in Streams |->
                        IF n \in Prepared THEN "reading" ELSE rdr[n][k]]]
          /\ retErr' = PrepareError
          /\ pc' = IF PrepareError # Unset THEN "done"
                   ELSE IF Len(services) = 0 THEN "running" ELSE "spawn"
    /\ UNCHANGED <<written, sink, interruptFirst, env, atCleanup, budget, cfg, initServices, services, newErr, idx, waitLock,
                   lastError, signalCh, proc, reaped, pipe, lastLine, readyCh,
                   readyOnce, aw, cl, timer, sigInt, sigKill, interrupts,
                   blocked, osSignals, emitted>>

Run == Enter("Run")

RunAll == Enter("RunAll")

(***************************************************************************)
(* composer.go: startServices, the coordinator.                            *)
(***************************************************************************)
\* where the for loop goes after the select of service idx falls through
NextPc == IF idx < Len(services) THEN "spawn" ELSE "running"
NextIdx == IF idx < Len(services) THEN idx + 1 ELSE idx

\* service.cmd.Start() and the go statement of the await-exit goroutine
Spawn ==
    /\ pc = "spawn"
    /\ LET s == services[idx]
       IN  \/ /\ proc' = [proc EXCEPT ![s] = "alive"]
              /\ aw' = [aw EXCEPT ![s] = "outputWait"]
              /\ pc' = "select"
              /\ UNCHANGED retErr
           \/ /\ proc' = [proc EXCEPT ![s] = "failed"]
              /\ retErr' = ErrStart(s)
              /\ pc' = "cleanup"
              /\ UNCHANGED aw
    /\ UNCHANGED <<written, sink, interruptFirst, env, atCleanup, budget, cfg, initServices, services, newErr, idx, api, waitFor,
                   waitLock, lastError, signalCh, reaped, pipe, rdr, lastLine,
                   readyCh, readyOnce, cl, timer, sigInt, sigKill, interrupts,
                   blocked, osSignals, emitted>>

\* case <-service.ready
SelectReady ==
    /\ pc = "select"
    /\ readyCh[services[idx]] > 0
    /\ readyCh' = [readyCh EXCEPT ![services[idx]] = 0]
    /\ pc' = NextPc
    /\ idx' = NextIdx
    /\ UNCHANGED <<written, sink, interruptFirst, env, atCleanup, budget, cfg, initServices, services, newErr, retErr, api, waitFor,
                   waitLock, lastError, signalCh, proc, reaped, pipe, rdr,
                   lastLine, readyOnce, aw, cl, timer, sigInt, sigKill,
                   interrupts, blocked, osSignals, emitted>>

\* where the coordinator is after c.Interrupt() returned, in the start loop
\* (the select ends and the for loop goes on) and in the running loop
AfterSignalPc == IF pc = "select" THEN NextPc ELSE "running"
AfterSignalIdx == IF pc = "select" THEN NextIdx ELSE idx

\* case <-signalCh: c.Interrupt(), in either select.  The send blocks the
\* coordinator when the buffer is full; the coordinator is the only receiver,
\* so it then stays blocked.
SelectSignal ==
    /\ pc \in {"select", "running"}
    /\ signalCh > 0
    /\ signalCh' = 0
    /\ IF HasRoom
       THEN /\ lastError' = Append(lastError, ErrInterrupted)
            /\ pc' = AfterSignalPc
            /\ idx' = AfterSignalIdx
       ELSE /\ pc' = "blocked"
            /\ UNCHANGED <<lastError, idx>>
    /\ UNCHANGED <<written, sink, interruptFirst, env, atCleanup, budget, cfg, initServices, services, newErr, retErr, api, waitFor,
                   waitLock, proc, reaped, pipe, rdr, lastLine, readyCh,
                   readyOnce, aw, cl, timer, sigInt, sigKill, interrupts,
                   blocked, osSignals, emitted>>

\* case err := <-c.lastError: return err, in either select.  (Nothing sends
\* on service.error, so the case that receives from it is never taken.)
SelectError ==
    /\ pc \in {"select", "running"}
    /\ CanReceive
    /\ retErr' = Received
    /\ ReceiveFrom
    /\ pc' = "cleanup"
    /\ UNCHANGED <<written, sink, interruptFirst, env, atCleanup, budget, cfg, initServices, services, newErr, idx, api, waitFor,
                   waitLock, signalCh, proc, reaped, pipe, rdr, lastLine,
                   readyCh, readyOnce, aw, cl, timer, sigInt, sigKill,
                   interrupts, osSignals, emitted>>


(***************************************************************************)
(* The services' processes (the environment of composer).                  *)
(***************************************************************************)
Alive(s) == proc[s] = "alive"

\* the process has terminated (it may not have been waited for yet)
Dead(s) == proc[s] \in {"exit0", "exit1", "killed"}

\* the write ends of the service's pipes are closed: the process is gone, or
\* Start failed and closed the descriptors.  Before Start the parent holds them.
WriteEndClosed(s) == Dead(s) \/ proc[s] = "failed"

\* a line as bufio.Reader.ReadString('\n') returns it
Raw(line) == line \o <<"\n">>

\* the process writes a line to one of its streams
ProcEmit(s, k, line) ==
    /\ Alive(s)
    /\ Writes(s)
    /\ emitted < budget.lines
    /\ pipe[s][k] = <<>>
    /\ pipe' = [pipe EXCEPT ![s][k] = <<Raw(line)>>]
    /\ written' = [written EXCEPT ![s][k] = Append(@, line)]
    /\ emitted' = emitted + 1
    /\ UNCHANGED <<sink, interruptFirst, env, atCleanup, budget, cfg, initServices, pc, services, newErr, idx, retErr, api,
                   waitFor, waitLock, lastError, signalCh, proc, reaped, rdr,
                   lastLine, readyCh, readyOnce, aw, cl, timer, sigInt,
                   sigKill, interrupts, blocked, osSignals>>

\* the process exits by itself, with status 0 or not
ProcExit(s, status) ==
    /\ Alive(s)
    /\ Exits(s)
    /\ status \in ExitStatuses(s)
    /\ proc' = [proc EXCEPT ![s] = status]
    /\ UNCHANGED <<written, sink, interruptFirst, env, atCleanup, budget, cfg, initServices, pc, services, newErr, idx, retErr, api,
                   waitFor, waitLock, lastError, signalCh, reaped, pipe, rdr,
                   lastLine, readyCh, readyOnce, aw, cl, timer, sigInt,
                   sigKill, interrupts, blocked, osSignals, emitted>>

\* the process is terminated by the SIGINT sent to its process group
IntDeath(s) ==
    /\ Alive(s)
    /\ sigInt[s] > 0
    /\ ~TrapsInt(s)
    /\ proc' = [proc EXCEPT ![s] = "killed"]
    /\ UNCHANGED <<written, sink, interruptFirst, env, atCleanup, budget, cfg, initServices, pc, services, newErr, idx, retErr, api,
                   waitFor, waitLock, lastError, signalCh, reaped, pipe, rdr,
                   lastLine, readyCh, readyOnce, aw, cl, timer, sigInt,
                   sigKill, interrupts, blocked, osSignals, emitted>>

\* Run has returned.  The run is followed until then (cmd/composer then exits).
Returned == pc = "done"

\* startServices has not returned: a value sent on lastError can still be
\* received.  The sends made after that are not explored; nor is a blocked
\* send ever completed before that, since the one receive that makes room in
\* the buffer is followed by the return of startServices.
Receiving == pc \in {"constructed", "spawn", "select", "running", "blocked"}

\* no call of quit has reported (or is blocked reporting) an exit on lastError
NoExitReported ==
    /\ \A i \in DOMAIN lastError : lastError[i].kind # "exit"
    /\ \A s \in Names : aw[s] # "send"
    /\ retErr.kind # "exit"

\* what an arriving interrupt leaves in interruptFirst
ArrivesFirst == interruptFirst \/ NoExitReported

\* the user of the package calls Interrupt(): the send completes or blocks
UserInterrupt ==
    /\ Receiving
    /\ interrupts < budget.interrupts
    /\ interrupts' = interrupts + 1
    /\ interruptFirst' = ArrivesFirst
    /\ IF HasRoom
       THEN lastError' = Append(lastError, ErrInterrupted) /\ UNCHANGED blocked
       ELSE blocked' = blocked + 1 /\ UNCHANGED lastError
    /\ UNCHANGED <<written, sink, env, atCleanup, budget, cfg, initServices, pc, services, newErr, idx, retErr, api,
                   waitFor, waitLock, signalCh, proc, reaped, pipe, rdr,
                   lastLine, readyCh, readyOnce, aw, cl, timer, sigInt,
                   sigKill, osSignals, emitted>>

\* an OS interrupt/hangup signal arrives after signal.Notify: the runtime
\* puts it in signalCh without blocking, and drops it when the buffer is full
OsSignal ==
    /\ pc \in {"spawn", "select", "running"}
    /\ osSignals < budget.signals
    /\ osSignals' = osSignals + 1
    /\ signalCh' = 1
    /\ interruptFirst' = ArrivesFirst
    /\ UNCHANGED <<written, sink, env, atCleanup, budget, cfg, initServices, pc, services, newErr, idx, retErr, api,
                   waitFor, waitLock, lastError, proc, reaped, pipe, rdr,
                   lastLine, readyCh, readyOnce, aw, cl, timer, sigInt,
                   sigKill, interrupts, blocked, emitted>>

(***************************************************************************)
(* composer.go: registerOutput, the reader goroutine of one stream.        *)
(***************************************************************************)
IsLineEnd(c) == c = "\n" \/ c = "\r"

\* strings.TrimRight(line, "\r\n")
RECURSIVE TrimRight(_)
TrimRight(line) ==
    IF Len(line) > 0 /\ IsLineEnd(line[Len(line)])
    THEN TrimRight(SubSeq(line, 1, Len(line) - 1))
    ELSE line

\* the line is skipped as a repetition of the last one
Skipped(line, last) == EqualFold(line, last)

\* a faulty variant of Matches: the case of the letters is not looked at
MatchesAnyCase(s, line) ==
    /\ cfg[s].ReadyOn # EmptyString
    /\ \E i \in 0..Len(line) :
          /\ i + Len(cfg[s].ReadyOn) <= Len(line)
          /\ EqualFold(SubSeq(line, i + 1, i + Len(cfg[s].ReadyOn)), cfg[s].ReadyOn)

\* a faulty variant of OnceDo: the function is run every time
OnceAlways(s) == TRUE

\* service.readyOnce.Do runs its function: it has not run before
OnceDo(s) == ~readyOnce[s]

\* the line fires the ready signal (when readyOnce has not run yet)
Matches(s, line) ==
    /\ cfg[s].ReadyOn # EmptyString
    /\ Contains(line, cfg[s].ReadyOn)

\* a faulty variant of ReadinessChecked: skipped lines are looked at too
CheckedAlways(line, last) == TRUE

\* the readiness test is reached: the continue of a skipped line is before it
ReadinessChecked(line, last) == ~Skipped(line, last)

\* the body of the loop for what ReadString returned
Process(s, k, raw) ==
    LET line == TrimRight(raw)
    IN  /\ IF Skipped(line, lastLine[s][k])
           THEN UNCHANGED <<lastLine, sink>>
           ELSE /\ lastLine' = [lastLine EXCEPT ![s][k] = line]
                /\ sink' = [sink EXCEPT ![s][k] = Append(@, line)]
        /\ IF /\ ReadinessChecked(line, lastLine[s][k])
              /\ Matches(s, line)
              /\ OnceDo(s)
           THEN /\ readyOnce' = [readyOnce EXCEPT ![s] = TRUE]
                /\ readyCh' = [readyCh EXCEPT ![s] = readyCh[s] + 1]
           ELSE UNCHANGED <<readyOnce, readyCh>>

\* ReadString returns a line
ReadLine(s, k) ==
    /\ ~Returned
    /\ rdr[s][k] = "reading"
    /\ pipe[s][k] # <<>>
    /\ Process(s, k, Head(pipe[s][k]))
    /\ pipe' = [pipe EXCEPT ![s][k] = Tail(pipe[s][k])]
    /\ UNCHANGED <<written, interruptFirst, env, atCleanup, budget, cfg, initServices, pc, services, newErr, idx, retErr, api,
                   waitFor, waitLock, lastError, signalCh, proc, reaped, rdr,
                   aw, cl, timer, sigInt, sigKill, interrupts, blocked,
                   osSignals, emitted>>

\* ReadString returns "" and an error (EOF, or the pipe was closed): the body
\* runs once more on the empty line, the loop ends, outputWait.Done()
ReadEnd(s, k) ==
    /\ ~Returned
    /\ rdr[s][k] = "reading"
    /\ pipe[s][k] = <<>>
    /\ WriteEndClosed(s)
    /\ Process(s, k, EmptyString)
    /\ rdr' = [rdr EXCEPT ![s][k] = "done"]
    /\ UNCHANGED <<written, interruptFirst, env, atCleanup, budget, cfg, initServices, pc, services, newErr, idx, retErr, api,
                   waitFor, waitLock, lastError, signalCh, proc, reaped, pipe,
                   aw, cl, timer, sigInt, sigKill, interrupts, blocked,
                   osSignals, emitted>>


(***************************************************************************)
(* composer.go: the await-exit goroutine of startServices, and quit.       *)
(***************************************************************************)
\* a faulty variant of OutputWaitDone: a join of the spawned services' readers
SpawnedOutputDone ==
    \A n \in Names : proc[n] # "none" => \A k \in Streams : rdr[n][k] # "reading"

\* c.outputWait.Wait() returns: the one WaitGroup counts the readers of every
\* service registered by prepareServices
OutputWaitDone == \A n \in Names : \A k \in Streams : rdr[n][k] # "reading"

\* c.outputWait.Wait() and then service.cmd.Wait() return: every reader is
\* done and the process has terminated.  cmd.Wait() consumes the exit status
\* unless cleanupService's Process.Wait() already did.
AwaitExit(s) ==
    /\ ~Returned
    /\ aw[s] = "outputWait"
    /\ OutputWaitDone
    /\ Dead(s)
    /\ reaped' = [reaped EXCEPT ![s] = IF reaped[s] = "no" THEN "cmd" ELSE reaped[s]]
    /\ aw' = [aw EXCEPT ![s] = "quit"]
    /\ UNCHANGED <<written, sink, interruptFirst, env, atCleanup, budget, cfg, initServices, pc, services, newErr, idx, retErr, api,
                   waitFor, waitLock, lastError, signalCh, proc, pipe, rdr,
                   lastLine, readyCh, readyOnce, cl, timer, sigInt, sigKill,
                   interrupts, blocked, osSignals, emitted>>

\* the error cmd.Wait() returned: nil for exit status 0, an ExitError for a
\* non-zero status or a signal, a wait error when the status was already taken
WaitErr(s) ==
    IF reaped[s] # "cmd" THEN "wait: no child processes"
    ELSE IF proc[s] = "exit0" THEN "nil"
    ELSE IF proc[s] = "exit1" THEN "exit status 1"
    ELSE "signal: killed"

\* a faulty variant of CleanMemberExit: the exit error is not looked at
AnyMemberExit(s, err) == Cardinality(waitFor) > 0 /\ s \in waitFor

\* quit's first test: a clean exit of a member of the wait-for set
CleanMemberExit(s, err) ==
    /\ Cardinality(waitFor) > 0
    /\ err = "nil"
    /\ s \in waitFor

WaitForAfterQuit(s, err) ==
    IF CleanMemberExit(s, err) THEN waitFor \ {s} ELSE waitFor

\* a faulty variant of QuitReturnsEarly: quit never returns without sending
QuitAlwaysReports(s, err) == FALSE

\* quit returns without sending: members of the wait-for set remain
QuitReturnsEarly(s, err) ==
    /\ CleanMemberExit(s, err)
    /\ Cardinality(WaitForAfterQuit(s, err)) > 0

\* c.quit(service.name, err), up to the send on lastError (which may block,
\* with waitLock held)
Quit(s) ==
    /\ Receiving
    /\ aw[s] = "quit"
    /\ waitLock = "free"
    /\ LET err == WaitErr(s)
       IN  /\ waitFor' = WaitForAfterQuit(s, err)
           /\ IF QuitReturnsEarly(s, err)
              THEN /\ aw' = [aw EXCEPT ![s] = "done"]
                   /\ UNCHANGED <<lastError, waitLock>>
              ELSE IF HasRoom
              THEN /\ lastError' = Append(lastError, Err("exit", s, err))
                   /\ aw' = [aw EXCEPT ![s] = "done"]
                   /\ UNCHANGED waitLock
              ELSE /\ aw' = [aw EXCEPT ![s] = "send"]
                   /\ waitLock' = s
                   /\ UNCHANGED lastError
    /\ UNCHANGED <<written, sink, interruptFirst, env, atCleanup, budget, cfg, initServices, pc, services, newErr, idx, retErr, api,
                   signalCh, proc, reaped, pipe, rdr, lastLine, readyCh,
                   readyOnce, cl, timer, sigInt, sigKill, interrupts, blocked,
                   osSignals, emitted>>

(***************************************************************************)
(* composer.go: cleanup and cleanupService.                                *)
(***************************************************************************)
\* the deferred c.cleanup(): one cleanupService goroutine per service
StartCleanup ==
    /\ pc = "cleanup"
    /\ cl' = [n \in Names |-> IF n \in Range(services) THEN "start" ELSE cl[n]]
    /\ atCleanup' = [n \in Names |-> IF n \in Range(services) THEN proc[n] ELSE atCleanup[n]]
    /\ pc' = "cleanupWait"
    /\ UNCHANGED <<written, sink, interruptFirst, env, budget, cfg, initServices, services, newErr, idx, retErr, api,
                   waitFor, waitLock, lastError, signalCh, proc, reaped, pipe,
                   rdr, lastLine, readyCh, readyOnce, aw, timer, sigInt,
                   sigKill, interrupts, blocked, osSignals, emitted>>

\* cmd.ProcessState != nil && cmd.ProcessState.Exited(): cmd.Wait() has set
\* ProcessState, and the process exited by itself (Exited is false for a
\* process terminated by a signal)
AlreadyExited(s) == reaped[s] = "cmd" /\ proc[s] \in {"exit0", "exit1"}

\* cmd.Process == nil: Start was not called, or failed
NoProcess(s) == proc[s] \in {"none", "failed"}

\* a faulty variant of CleanupSkips: cleanupService never does anything
CleanupSkipsAll(s) == TRUE

\* cleanupService returns before sending any signal
CleanupSkips(s) == AlreadyExited(s) \/ NoProcess(s)

\* cleanupService up to the call of Process.Wait(): the checks, then
\* time.AfterFunc(killTimeout, ...) and syscall.Kill(-pid, SIGINT)
CleanupService(s) ==
    /\ cl[s] = "start"
    /\ IF CleanupSkips(s)
       THEN /\ cl' = [cl EXCEPT ![s] = "done"]
            /\ UNCHANGED <<timer, sigInt>>
       ELSE /\ cl' = [cl EXCEPT ![s] = "wait"]
            /\ timer' = [timer EXCEPT ![s] = "armed"]
            /\ sigInt' = [sigInt EXCEPT ![s] = sigInt[s] + 1]
    /\ atCleanup' = [atCleanup EXCEPT ![s] = "-"]
    /\ UNCHANGED <<written, sink, interruptFirst, env, budget, cfg, initServices, pc, services, newErr, idx, retErr, api,
                   waitFor, waitLock, lastError, signalCh, proc, reaped, pipe,
                   rdr, lastLine, readyCh, readyOnce, aw, sigKill, interrupts,
                   blocked, osSignals, emitted>>

\* a faulty variant of ProcessWaitReturns: the wait does not wait
WaitReturnsAtOnce(s) == TRUE

\* Process.Wait() may return: the process has terminated
ProcessWaitReturns(s) == Dead(s)

\* service.cmd.Process.Wait() returns; it consumes the exit status unless
\* cmd.Wait() already did.  Then the deferred killTimer.Stop() and
\* cleanupWait.Done() run.
CleanupWait(s) ==
    /\ cl[s] = "wait"
    /\ ProcessWaitReturns(s)
    /\ reaped' = [reaped EXCEPT ![s] = IF reaped[s] = "no" THEN "process" ELSE reaped[s]]
    /\ timer' = [timer EXCEPT ![s] = "off"]
    /\ cl' = [cl EXCEPT ![s] = "done"]
    /\ UNCHANGED <<written, sink, interruptFirst, env, atCleanup, budget, cfg, initServices, pc, services, newErr, idx, retErr, api,
                   waitFor, waitLock, lastError, signalCh, proc, pipe, rdr,
                   lastLine, readyCh, readyOnce, aw, sigInt, sigKill,
                   interrupts, blocked, osSignals, emitted>>

\* what SIGKILL does to the process group
Killed(s) == IF Alive(s) THEN "killed" ELSE proc[s]

\* the kill timer fires: syscall.Kill(-pid, SIGKILL)
KillTimer(s) ==
    /\ timer[s] = "armed"
    /\ timer' = [timer EXCEPT ![s] = "off"]
    /\ sigKill' = [sigKill EXCEPT ![s] = sigKill[s] + 1]
    /\ proc' = [proc EXCEPT ![s] = Killed(s)]
    /\ UNCHANGED <<written, sink, interruptFirst, env, atCleanup, budget, cfg, initServices, pc, services, newErr, idx, retErr, api,
                   waitFor, waitLock, lastError, signalCh, reaped, pipe, rdr,
                   lastLine, readyCh, readyOnce, aw, cl, sigInt, interrupts,
                   blocked, osSignals, emitted>>

\* c.cleanupWait.Wait() returns, and Run returns
AllCleanedUp == \A s \in Range(services) : cl[s] = "done"

CleanupDone ==
    /\ pc = "cleanupWait"
    /\ AllCleanedUp
    /\ pc' = "done"
    /\ UNCHANGED <<written, sink, interruptFirst, env, atCleanup, budget, cfg, initServices, services, newErr, idx, retErr, api,
                   waitFor, waitLock, lastError, signalCh, proc, reaped, pipe,
                   rdr, lastLine, readyCh, readyOnce, aw, cl, timer, sigInt,
                   sigKill, interrupts, blocked, osSignals, emitted>>


(***************************************************************************)
(* The configurations explored by the run specification: the shapes of     *)
(* the repository's tests (one service; a dependency and its dependent;    *)
(* two requested services; two requested services and a dependency), no    *)
(* requested service at all, and configurations New or Run rejects.        *)
(***************************************************************************)
ReadyOns == {EmptyString, OkLower}

Scenario(S, init) == [Services |-> S, init |-> init]

OneService ==
    {Scenario([n \in {"s1"} |-> ServiceConfig(c, r, <<>>)], <<"s1">>) :
        c \in {"oneshot", "trap"}, r \in ReadyOns}

DependencyChain ==
    {Scenario([n \in {"b1", "s2"} |->
                 IF n = "b1" THEN ServiceConfig(c[1], c[2], <<>>)
                 ELSE ServiceConfig("oneshot", EmptyString, <<"b1">>)],
              <<"s2">>) :
        c \in {<<"oneshot", OkLower>>, <<"daemon", EmptyString>>}}

TwoRequested ==
    {Scenario([n \in {"s1", "s2"} |-> ServiceConfig("oneshot", EmptyString, <<>>)],
              <<"s1", "s2">>)}

NoneRequested ==
    {Scenario([n \in {"s1"} |-> ServiceConfig("oneshot", EmptyString, <<>>)], <<>>)}

Rejected ==
    {Scenario([n \in {"s1", "s2"} |->
                 IF n = "s1" THEN ServiceConfig("oneshot", EmptyString, <<"s2">>)
                 ELSE ServiceConfig("oneshot", EmptyString, <<"s1">>)],
              <<"s1">>),
     Scenario([n \in {"s1"} |-> ServiceConfig("oneshot", EmptyString, <<"s1">>)],
              <<"s1">>),
     Scenario([n \in {"s1"} |-> ServiceConfig("oneshot", EmptyString, <<"b1">>)],
              <<"s1">>),
     Scenario([n \in {"s1"} |-> ServiceConfig("oneshot", EmptyString, <<>>)],
              <<"s2">>),
     Scenario([n \in {"b1", "s2"} |->
                 IF n = "b1" THEN ServiceConfig("oneshot", EmptyString, <<>>)
                 ELSE ServiceConfig("", EmptyString, <<"b1">>)],
              <<"s2">>)}

\* a service whose command is white space only
BlankCommand ==
    {Scenario([n \in {"s1"} |-> ServiceConfig(Blank, EmptyString, <<>>)], <<"s1">>)}

Scenarios == OneService \cup DependencyChain \cup TwoRequested
             \cup NoneRequested \cup Rejected \cup BlankCommand

\* A run is explored with output from the services, or with interrupts of the
\* user and signals of the OS.
Budgets ==
    {[lines |-> MaxLines, interrupts |-> 0, signals |-> 0],
     [lines |-> 0, interrupts |-> MaxInterrupts, signals |-> MaxSignals]}

Init ==
    /\ \E sc \in Scenarios : cfg = sc.Services /\ initServices = sc.init
    /\ budget \in Budgets
    /\ env = NoCall
    /\ Idle

(***************************************************************************)
(* The next-state relation.                                                *)
(***************************************************************************)
\* the steps of composer's own goroutines, of the timers it armed and of the
\* signals it sent
ProgramStep ==
    \/ New
    \/ Run
    \/ RunAll
    \/ Spawn
    \/ SelectReady
    \/ SelectSignal
    \/ SelectError
    \/ StartCleanup
    \/ CleanupDone
    \/ \E s \in Names, k \in Streams : ReadLine(s, k)
    \/ \E s \in Names, k \in Streams : ReadEnd(s, k)
    \/ \E s \in Names : AwaitExit(s)
    \/ \E s \in Names : Quit(s)
    \/ \E s \in Names : CleanupService(s)
    \/ \E s \in Names : CleanupWait(s)
    \/ \E s \in Names : KillTimer(s)
    \/ \E s \in Names : IntDeath(s)

\* the steps of the environment: the services' programs, the user, the OS
EnvironmentStep ==
    \/ \E s \in Names, k \in Streams, line \in Lines : ProcEmit(s, k, line)
    \/ \E s \in Names, status \in {"exit0", "exit1"} : ProcExit(s, status)
    \/ UserInterrupt
    \/ OsSignal

Next == ProgramStep \/ EnvironmentStep

Spec == Init /\ [][Next]_vars


(***************************************************************************)
(* The resolver specification: New is called on every configuration over   *)
(* Names whose depends_on lists are in ListsUpTo(Names, MaxDeps), with     *)
(* every list of requested names in ListsUpTo(Names, MaxReq).  A name      *)
(* outside the domain of the configuration has no service definition.      *)
(***************************************************************************)
\* the lists of at most n distinct names, and the lists that name one name
\* twice (for n = 2: every list of at most two names)
ListsUpTo(S, n) ==
    {sq \in SeqsUpTo(S, n) : NoDuplicates(sq)}
        \cup (IF n >= 2 THEN {<<x, x>> : x \in S} ELSE {})

DependsOnLists == ListsUpTo(Names, MaxDeps)

Graphs ==
    UNION {[D -> {ServiceConfig("oneshot", EmptyString, d) : d \in DependsOnLists}] :
              D \in SUBSET Names}

Requests == ListsUpTo(Names, MaxReq)

NoEvents == [lines |-> 0, interrupts |-> 0, signals |-> 0]

InitResolve ==
    /\ cfg \in Graphs
    /\ initServices \in Requests
    /\ budget = NoEvents
    /\ env = NoCall
    /\ Idle

NextResolve == New

SpecResolve == InitResolve /\ [][NextResolve]_vars

(***************************************************************************)
(* The Extends specification: Extends is called on every pair of           *)
(* environments over EnvKeys and EnvValues, nil maps included.             *)
(***************************************************************************)
InitExtends ==
    /\ \E child, parent \in Environments :
          env = [child |-> child, parent |-> parent,
                 result |-> NilEnvironment, returned |-> FALSE]
    /\ cfg = <<>>
    /\ initServices = <<>>
    /\ budget = NoEvents
    /\ Idle

\* result := env.Extends(parent); the call reads its arguments only
ExtendsCall ==
    /\ ~env.returned
    /\ env' = [env EXCEPT !.result = Extends(env.child, env.parent),
                          !.returned = TRUE]
    /\ UNCHANGED <<cfg, initServices, pc, services, newErr, idx, retErr, api,
                   waitFor, waitLock, lastError, signalCh, proc, reaped, pipe,
                   rdr, lastLine, readyCh, readyOnce, aw, cl, timer, sigInt,
                   sigKill, interrupts, blocked, osSignals, emitted, budget,
                   written, sink, interruptFirst, atCleanup>>

NextExtends == ExtendsCall

SpecExtends == InitExtends /\ [][NextExtends]_vars

(***************************************************************************)
(* The reader specification: the two readers of one service read every    *)
(* sequence of at most MaxInput lines (stdout) and MaxErrInput lines       *)
(* (stderr) over InputLines, which the service wrote before it exited.     *)
(* Every line ends with a newline.                                         *)
(***************************************************************************)
InputLines == {EmptyString, OkLower, OkUpper, <<"x">>}

\* what the service wrote to stdout, and to stderr
Inputs ==
    [stdout : SeqsUpTo(InputLines, MaxInput), stderr : SeqsUpTo(InputLines, MaxErrInput)]

TheService == "s1"

InitReader ==
    /\ \E readyOn \in ReadyOns :
          cfg = [n \in {TheService} |-> ServiceConfig("oneshot", readyOn, <<>>)]
    /\ initServices = <<TheService>>
    /\ services = <<TheService>>
    /\ \E input \in Inputs :
          /\ written = [n \in Names |-> [k \in Streams |->
                          IF n = TheService THEN input[k] ELSE <<>>]]
          /\ pipe = [n \in Names |-> [k \in Streams |->
                          IF n = TheService
                          THEN [i \in DOMAIN input[k] |-> Raw(input[k][i])] ELSE <<>>]]
          /\ emitted = Len(input.stdout) + Len(input.stderr)
    /\ budget = [lines |-> MaxInput + MaxErrInput, interrupts |-> 0, signals |-> 0]
    /\ env = NoCall
    /\ pc = "running"
    /\ newErr = ErrNone
    /\ idx = 1
    /\ retErr = Unset
    /\ api = "Run"
    /\ waitFor = {}
    /\ waitLock = "free"
    /\ lastError = <<>>
    /\ signalCh = 0
    /\ proc = [n \in Names |-> IF n = TheService THEN "exit0" ELSE "none"]
    /\ reaped = [n \in Names |-> "no"]
    /\ rdr = [n \in Names |-> [k \in Streams |->
                 IF n = TheService THEN "reading" ELSE "none"]]
    /\ lastLine = [n \in Names |-> [k \in Streams |-> EmptyString]]
    /\ sink = [n \in Names |-> [k \in Streams |-> <<>>]]
    /\ readyCh = [n \in Names |-> IF n = TheService THEN InitialReady(cfg, n) ELSE 0]
    /\ readyOnce = [n \in Names |-> FALSE]
    /\ aw = [n \in Names |-> IF n = TheService THEN "outputWait" ELSE "none"]
    /\ cl = [n \in Names |-> "none"]
    /\ timer = [n \in Names |-> "off"]
    /\ sigInt = [n \in Names |-> 0]
    /\ sigKill = [n \in Names |-> 0]
    /\ interrupts = 0
    /\ blocked = 0
    /\ osSignals = 0
    /\ interruptFirst = FALSE
    /\ atCleanup = [n \in Names |-> "-"]

NextReader ==
    \/ \E k \in Streams : ReadLine(TheService, k)
    \/ \E k \in Streams : ReadEnd(TheService, k)

SpecReader == InitReader /\ [][NextReader]_vars

(***************************************************************************)
(* Graph notions used by the properties of the resolver.  They are stated  *)
(* on the configuration, independently of the resolver's loops.            *)
(***************************************************************************)
\* the names a name depends on directly; none when it has no definition
Deps(S, n) == IF n \in DOMAIN S THEN Range(S[n].DependsOn) ELSE {}

\* the names reachable from a set of names along DependsOn, the set included
RECURSIVE ReachableFrom(_, _)
ReachableFrom(S, set) ==
    LET more == set \cup UNION {Deps(S, n) : n \in set}
    IN  IF more = set THEN set ELSE ReachableFrom(S, more)

\* the transitive closure of the requested names under DependsOn
Closure(S, requested) == ReachableFrom(S, Range(requested))

\* a name of the set reaches itself along one or more DependsOn edges
HasCycle(S, set) == \E n \in set : n \in ReachableFrom(S, Deps(S, n))

AllDefined(S, set) == set \subseteq DOMAIN S

\* New has returned
NewReturned == pc # "new"

\* New has failed with this error: no order, and nothing a run could start from
NewFailedWith(e) ==
    /\ pc = "failed"
    /\ newErr = e
    /\ services = <<>>
    /\ \A n \in Names : proc[n] = "none"
    /\ ~ENABLED Next

\* position of a name in the returned order
Before(a, b) ==
    \E i, j \in DOMAIN services : services[i] = a /\ services[j] = b /\ i < j

(***************************************************************************)
(* C2.  For every configuration in which all names of the closure of the   *)
(* requested names are defined and the closure has no cycle,               *)
(* ServicesToStart returns no error and a list without duplicates whose    *)
(* names are exactly the closure, every service after each of its          *)
(* dependencies.                                                           *)
(***************************************************************************)
C2_ResolveOrder ==
    (/\ NewReturned
     /\ AllDefined(cfg, Closure(cfg, initServices))
     /\ ~HasCycle(cfg, Closure(cfg, initServices)))
    => /\ newErr = ErrNone
       /\ pc = "constructed"
       /\ NoDuplicates(services)
       /\ Range(services) = Closure(cfg, initServices)
       /\ \A n \in Range(services) : \A d \in Deps(cfg, n) : Before(d, n)

\* a service with two dependencies, one of which depends on the other, resolved
C2_Witness ==
    /\ pc = "constructed"
    /\ Len(initServices) = 1
    /\ Len(services) = 3
    /\ Cardinality(Deps(cfg, initServices[1])) = 2
    /\ \E d \in Deps(cfg, initServices[1]) : Deps(cfg, d) # {}

(***************************************************************************)
(* C3 as stated.  Whenever the closure of the requested names contains a   *)
(* cycle, New fails with the circular-dependency error.                    *)
(***************************************************************************)
C3_AsStated ==
    (NewReturned /\ HasCycle(cfg, Closure(cfg, initServices)))
    => NewFailedWith(ErrCircular)

(***************************************************************************)
(* C3, amended.  Whenever all names of the closure of the requested names  *)
(* are defined and the closure contains a cycle (a service that lists      *)
(* itself included), New fails with the circular-dependency error, has no  *)
(* order, and no process is spawned; when a name of the closure is not     *)
(* defined the error is the unknown-service error instead.                 *)
(***************************************************************************)
C3_CycleRejected ==
    (NewReturned /\ HasCycle(cfg, Closure(cfg, initServices)))
    => IF AllDefined(cfg, Closure(cfg, initServices))
       THEN NewFailedWith(ErrCircular)
       ELSE NewFailedWith(ErrUnknownService)

\* a cycle through three defined services, reached from the requested name
C3_Witness ==
    /\ pc = "failed"
    /\ newErr = ErrCircular
    /\ Len(initServices) = 1
    /\ Closure(cfg, initServices) = Names
    /\ \A n \in Names : Cardinality(Deps(cfg, n)) = 1 /\ n \notin Deps(cfg, n)

(***************************************************************************)
(* C4.  Whenever a requested name, or a name reachable from one along      *)
(* DependsOn, has no service definition, New fails with the                *)
(* unknown-service error, has no order, and no process is spawned.         *)
(***************************************************************************)
C4_UnknownRejected ==
    (NewReturned /\ ~AllDefined(cfg, Closure(cfg, initServices)))
    => NewFailedWith(ErrUnknownService)

\* the undefined name is a dependency of a dependency, not a requested name
C4_Witness ==
    /\ pc = "failed"
    /\ newErr = ErrUnknownService
    /\ AllDefined(cfg, Range(initServices))
    /\ \A n \in Range(initServices) : AllDefined(cfg, Deps(cfg, n))
    /\ ~AllDefined(cfg, Closure(cfg, initServices))

(***************************************************************************)
(* Notions used by the properties of a run.                                *)
(***************************************************************************)
\* cmd.Start() succeeded for the service
Spawned(s) == proc[s] \in {"alive", "exit0", "exit1", "killed"}

\* the service's ready signal has been sent: by NewService when ready_on is
\* empty, by a reader otherwise
ReadyFired(s) == readyOnce[s] \/ cfg[s].ReadyOn = EmptyString

\* no Interrupt() call and no OS signal so far
Undisturbed == interrupts = 0 /\ osSignals = 0

\* the names RunAll was given; none for Run
Awaited == IF api = "RunAll" THEN RunAllWaitFor(initServices) ELSE {}

(***************************************************************************)
(* C1 as stated.  At every moment of every run, every service whose        *)
(* process has been spawned has all of its dependencies spawned and their  *)
(* ready signals fired.                                                    *)
(***************************************************************************)
C1_AsStated ==
    \A s \in DOMAIN cfg :
        Spawned(s) => \A d \in Deps(cfg, s) : Spawned(d) /\ ReadyFired(d)

(***************************************************************************)
(* C5 as stated, in the form a finite run refutes.  Once a service outside *)
(* the wait-for set has exited cleanly while another service is running,   *)
(* and nobody has interrupted, the run has returned or composer itself can *)
(* take a step towards it: it never depends on the other services' exits.  *)
(***************************************************************************)
C5_AsStated ==
    (/\ Undisturbed
     /\ \E s, o \in Names :
            /\ proc[s] = "exit0"
            /\ s \notin Awaited
            /\ o # s
            /\ Alive(o))
    => (Returned \/ ENABLED ProgramStep)

(***************************************************************************)
(* C6 as stated, in the form a finite run refutes.  Once a spawned service *)
(* has exited with an error, and nobody has interrupted, the run has       *)
(* returned or composer itself can take a step towards it, whatever the    *)
(* other services do.                                                      *)
(***************************************************************************)
C6_AsStated ==
    (Undisturbed /\ \E s \in Names : proc[s] = "exit1")
    => (Returned \/ ENABLED ProgramStep)

(***************************************************************************)
(* C7 as stated, in the form a finite run refutes.  In RunAll(names), once *)
(* every named service has exited with status 0, and nobody has            *)
(* interrupted, RunAll has returned or composer itself can take a step     *)
(* towards it, even while other services run.                              *)
(***************************************************************************)
C7_AsStated ==
    (/\ Undisturbed
     /\ api = "RunAll"
     /\ Awaited # {}
     /\ \A n \in Awaited : proc[n] = "exit0")
    => (Returned \/ ENABLED ProgramStep)

(***************************************************************************)
(* C8 as stated, in the form a finite run refutes.  Once Interrupt() has   *)
(* been called and a service that ignores SIGINT has been spawned: when    *)
(* Run has returned, it returned the interrupted error and the service was *)
(* sent SIGINT, then SIGKILL, and has terminated; until then composer      *)
(* itself can take a step towards it.                                      *)
(***************************************************************************)
C8_AsStated ==
    \A s \in DOMAIN cfg :
        (interrupts > 0 /\ TrapsInt(s) /\ Spawned(s))
        => IF Returned
           THEN /\ retErr = ErrInterrupted
                /\ sigInt[s] > 0
                /\ sigKill[s] > 0
                /\ proc[s] = "killed"
           ELSE ENABLED ProgramStep

(***************************************************************************)
(* C9.  Whenever Run/RunAll has returned after a service was spawned, the  *)
(* cleanupService task of every service of the run has completed and no    *)
(* process of the run is alive.                                            *)
(***************************************************************************)
C9_ShutdownComplete ==
    (Returned /\ \E s \in Names : Spawned(s))
    => /\ \A s \in Range(services) : cl[s] = "done"
       /\ \A n \in Names : ~Alive(n)

\* Run returned because a later service failed to spawn, after the shutdown
\* terminated an earlier one
C9_Witness ==
    /\ Returned
    /\ retErr.kind = "start"
    /\ \E s \in Names : proc[s] = "killed" /\ sigInt[s] > 0

(***************************************************************************)
(* C10 as stated.  Run/RunAll returns nil only when a wait-for set was     *)
(* configured and the report came from the member whose clean exit emptied *)
(* it.                                                                     *)
(***************************************************************************)
C10_AsStated ==
    (Returned /\ IsNil(retErr))
    => /\ api = "RunAll"
       /\ retErr.svc \in Awaited
       /\ waitFor = {}

(***************************************************************************)
(* C10, amended.  Run/RunAll returns nil only when the report it received  *)
(* is the exit report of a service that exited with status 0; when that    *)
(* service is a member of the wait-for set, the set is empty.  A clean     *)
(* exit in plain Run mode, or of a service outside the wait-for set,       *)
(* yields nil too; an interrupt or a failure to prepare or start never     *)
(* does.                                                                   *)
(***************************************************************************)
C10_NilOnlyForCleanExit ==
    (Returned /\ IsNil(retErr))
    => /\ retErr.kind = "exit"
       /\ proc[retErr.svc] = "exit0"
       /\ reaped[retErr.svc] = "cmd"
       /\ retErr.svc \in Awaited => waitFor = {}

\* RunAll returned nil for the clean exit of a service outside the wait-for set
C10_Witness ==
    /\ Returned
    /\ IsNil(retErr)
    /\ api = "RunAll"
    /\ retErr.kind = "exit"
    /\ retErr.svc \notin Awaited

(***************************************************************************)
(* C11 as stated, in the form a finite run refutes.  Once Interrupt() has  *)
(* been called or an OS interrupt/hangup signal has arrived, at any time   *)
(* after construction, Run has returned or composer itself can take a step *)
(* towards it: it never deadlocks.                                         *)
(***************************************************************************)
C11_AsStated ==
    (interrupts > 0 \/ osSignals > 0) => (Returned \/ ENABLED ProgramStep)

(***************************************************************************)
(* C13.  For a service with an empty ready_on: while the coordinator waits *)
(* for it in the start loop its ready signal is in the channel, so the     *)
(* coordinator can go on to the next service without any output or exit of *)
(* the service; and when its spawn failed the signal is never received:    *)
(* the coordinator has left the start loop at that service.                *)
(***************************************************************************)
C13_EmptyReadyOn ==
    \A s \in Range(services) :
        cfg[s].ReadyOn = EmptyString
        => /\ (pc = "select" /\ services[idx] = s)
                => (Alive(s) \/ Dead(s)) /\ readyCh[s] = 1 /\ ENABLED SelectReady
           /\ proc[s] = "failed"
                => /\ readyCh[s] = 1
                   /\ services[idx] = s
                   /\ pc \in {"cleanup", "cleanupWait", "done"}

\* the coordinator waits for the second service, which has an empty ready_on
\* and has written nothing
C13_Witness ==
    /\ pc = "select"
    /\ idx = 2
    /\ cfg[services[idx]].ReadyOn = EmptyString
    /\ Alive(services[idx])
    /\ emitted = 0

(***************************************************************************)
(* C17 as stated.  No send on lastError ever blocks: not a user's          *)
(* Interrupt(), not the coordinator's own Interrupt(), not quit's send.    *)
(***************************************************************************)
C17_AsStated ==
    /\ blocked = 0
    /\ pc # "blocked"
    /\ \A s \in Names : aw[s] # "send"

\* with no Interrupt() call of the user, the coordinator has taken an OS signal
SignalTaken ==
    /\ interrupts = 0
    /\ \/ \E i \in DOMAIN lastError : lastError[i] = ErrInterrupted
       \/ pc = "blocked"
       \/ retErr = ErrInterrupted

(***************************************************************************)
(* C18 as stated.  Once the coordinator has taken an OS interrupt/hangup   *)
(* signal, no service that has not been spawned yet is spawned.            *)
(***************************************************************************)
C18_AsStated ==
    [][SignalTaken => \A s \in Names : proc[s] = "none" => proc'[s] = "none"]_vars

\* the step is the call of quit for service s
QuitStep(s) == aw[s] = "quit" /\ aw'[s] # "quit"

\* the step sends (or blocks sending) this report on lastError
Reports(s, err) ==
    \/ lastError' = Append(lastError, Err("exit", s, err))
    \/ aw'[s] = "send"

(***************************************************************************)
(* C19.  After RunAll has set it, the wait-for set never gains a member    *)
(* and changes only in a call of quit; quit for a member that exited with  *)
(* a nil error removes exactly that member, and reports (nil) exactly when *)
(* the set is empty after the removal; every other quit leaves the set     *)
(* alone and reports the service's exit error.                             *)
(***************************************************************************)
C19_WaitForSet ==
    [][pc # "constructed"
       => /\ waitFor' \subseteq waitFor
          /\ waitFor' # waitFor => \E s \in Names : QuitStep(s)
          /\ \A s \in Names :
                QuitStep(s)
                => IF s \in waitFor /\ WaitErr(s) = "nil"
                   THEN /\ waitFor' = waitFor \ {s}
                        /\ Reports(s, "nil") <=> waitFor' = {}
                   ELSE /\ waitFor' = waitFor
                        /\ Reports(s, WaitErr(s))]_vars

\* a member has exited cleanly and was removed without a report; one remains
C19_Witness ==
    /\ api = "RunAll"
    /\ Cardinality(Awaited) = 2
    /\ Cardinality(waitFor) = 1
    /\ lastError = <<>>
    /\ retErr = Unset
    /\ \E s \in Awaited \ waitFor : aw[s] = "done"

\* a line containing s's ready_on (case-sensitively) has been forwarded
MatchForwarded(s) ==
    \E k \in Streams : \E i \in DOMAIN sink[s][k] :
        Contains(sink[s][k][i], cfg[s].ReadyOn)

(***************************************************************************)
(* C12.  For a service with a non-empty ready_on, every step in which the  *)
(* coordinator receives the service's ready signal happens after one of    *)
(* the service's readers has read a line that contains ready_on, the case  *)
(* of the letters included.                                                *)
(***************************************************************************)
C12_ReadyAfterMatch ==
    [][\A s \in DOMAIN cfg :
          (cfg[s].ReadyOn # EmptyString /\ readyCh'[s] < readyCh[s])
          => MatchForwarded(s)]_vars

\* the coordinator has received the ready signal of a service with a ready_on
C12_Witness ==
    \E s \in DOMAIN cfg :
        /\ cfg[s].ReadyOn # EmptyString
        /\ readyOnce[s]
        /\ readyCh[s] = 0
        /\ pc = "select"
        /\ idx = 2

(***************************************************************************)
(* C14.  For every service the readers send the ready signal at most once: *)
(* a step that puts a value in Service.ready is the one run of readyOnce   *)
(* (which never runs again) and finds the channel empty, so the send does  *)
(* not block; this holds when both readers read lines containing ready_on, *)
(* and when one reader reads several.                                      *)
(***************************************************************************)
C14_ReadyOnce ==
    [][\A s \in Names :
          /\ readyOnce[s] => readyOnce'[s]
          /\ readyCh'[s] > readyCh[s]
               => /\ readyCh[s] = 0
                  /\ readyCh'[s] = 1
                  /\ ~readyOnce[s]
                  /\ readyOnce'[s]]_vars

\* both readers have forwarded a line containing ready_on, stdout two of them
C14_Witness ==
    /\ readyOnce[TheService]
    /\ \E i \in DOMAIN sink[TheService]["stderr"] :
          Contains(sink[TheService]["stderr"][i], cfg[TheService].ReadyOn)
    /\ \E i, j \in DOMAIN sink[TheService]["stdout"] :
          /\ i < j
          /\ Contains(sink[TheService]["stdout"][i], cfg[TheService].ReadyOn)
          /\ Contains(sink[TheService]["stdout"][j], cfg[TheService].ReadyOn)

\* the lines of a stream with every run of consecutive lines that are equal
\* but for the case of their letters collapsed to its first line
RECURSIVE CollapseFrom(_, _)
CollapseFrom(lines, i) ==
    IF i > Len(lines) THEN <<>>
    ELSE (IF i = 1 \/ ~EqualFold(lines[i], lines[i - 1])
          THEN <<lines[i]>> ELSE <<>>) \o CollapseFrom(lines, i + 1)

Collapse(lines) == CollapseFrom(lines, 1)

(***************************************************************************)
(* C15 as stated.  When the reader of a stream has ended, the lines it     *)
(* forwarded are the lines written to the stream with every run of         *)
(* consecutive case-insensitively identical lines collapsed to its first   *)
(* line: nothing else dropped, nothing added.                              *)
(***************************************************************************)
C15_AsStated ==
    \A s \in Names : \A k \in Streams :
        rdr[s][k] = "done" => sink[s][k] = Collapse(written[s][k])

\* what C16 says of the result of Extends
ExtendsResult(child, parent, result) ==
    /\ ~result.isNil
    /\ DOMAIN result.map = DOMAIN child.map \cup DOMAIN parent.map
    /\ \A key \in DOMAIN result.map :
          result.map[key] = IF key \in DOMAIN child.map
                            THEN child.map[key] ELSE parent.map[key]

(***************************************************************************)
(* C16.  For all environments child and parent, nil or not,                *)
(* child.Extends(parent) returns a new (non-nil) map whose keys are the    *)
(* keys of both, with child's value for a key of child and parent's value  *)
(* otherwise; the call changes neither child nor parent.                   *)
(***************************************************************************)
C16_Extends ==
    /\ [](env.returned => ExtendsResult(env.child, env.parent, env.result))
    /\ [][env'.child = env.child /\ env'.parent = env.parent]_vars

\* the two maps disagree on a key, and parent has a key that child has not
C16_Witness ==
    /\ env.returned
    /\ \E key \in DOMAIN env.child.map \cap DOMAIN env.parent.map :
          env.child.map[key] # env.parent.map[key]
    /\ DOMAIN env.parent.map \ DOMAIN env.child.map # {}

(***************************************************************************)
(* C20 as stated.  When an interrupt (an Interrupt() call or an OS         *)
(* interrupt/hangup signal) arrived before any service had reported an     *)
(* exit, the error Run returns is not the exit error of a service.         *)
(***************************************************************************)
C20_AsStated ==
    (Returned /\ interruptFirst) => retErr.kind # "exit"

\* the names of the closure in the order a breadth-first traversal from the
\* requested names discovers them (every name of the closure is defined)
RECURSIVE Discover(_, _, _)
Discover(S, queue, found) ==
    IF queue = <<>> THEN found
    ELSE IF Head(queue) \in Range(found)
    THEN Discover(S, Tail(queue), found)
    ELSE Discover(S, Tail(queue) \o S[Head(queue)].DependsOn,
                  Append(found, Head(queue)))

DiscoveredBefore(a, b) ==
    LET found == Discover(cfg, initServices, <<>>)
    IN  \E i, j \in DOMAIN found : found[i] = a /\ found[j] = b /\ i < j

\* a service of the returned order that depends on nothing: it is resolvable
\* from the start
DependencyFree(n) == n \in Range(services) /\ Deps(cfg, n) = {}

(***************************************************************************)
(* C27 as stated.  Of two dependency-free services of the returned order   *)
(* (they become resolvable at the same point), the one discovered earlier  *)
(* in the breadth-first traversal from the requested names appears earlier *)
(* in the order.                                                           *)
(***************************************************************************)
C27_AsStated ==
    pc = "constructed"
    => \A a, b \in Names :
          (DependencyFree(a) /\ DependencyFree(b) /\ DiscoveredBefore(a, b))
          => Before(a, b)

(***************************************************************************)
(* C27.  Of two dependency-free services of the returned order, the one    *)
(* discovered later in the breadth-first traversal from the requested      *)
(* names appears earlier in the order: the traversal puts every service it *)
(* discovers in front of the ones discovered before, and the passes scan   *)
(* that list from the front.                                               *)
(***************************************************************************)
C27_TieBreak ==
    pc = "constructed"
    => \A a, b \in Names :
          (DependencyFree(a) /\ DependencyFree(b) /\ DiscoveredBefore(a, b))
          => Before(b, a)

\* one requested service that lists two dependency-free services, resolved
C27_Witness ==
    /\ pc = "constructed"
    /\ Len(initServices) = 1
    /\ Len(services) = 3
    /\ \E a, b \in Deps(cfg, initServices[1]) :
          /\ a # b
          /\ DependencyFree(a)
          /\ DependencyFree(b)
          /\ cfg[initServices[1]].DependsOn = <<a, b>>
          /\ services = <<b, a, initServices[1]>>

\* the step forwards a line of service s that contains its ready_on
ForwardsMatch(s) ==
    \E k \in Streams :
        /\ Len(sink'[s][k]) = Len(sink[s][k]) + 1
        /\ Contains(sink'[s][k][Len(sink'[s][k])], cfg[s].ReadyOn)

(***************************************************************************)
(* C28.  The readers fire the ready signal of a service only in a step     *)
(* that forwards a line containing ready_on: a line suppressed as a        *)
(* case-insensitive repetition of the line forwarded before it on the same *)
(* stream never fires the signal, even when it contains ready_on and the   *)
(* line before it did not.                                                 *)
(***************************************************************************)
C28_SuppressedNeverFires ==
    [][\A s \in Names :
          (~readyOnce[s] /\ readyOnce'[s]) => ForwardsMatch(s)]_vars

\* "OK" was forwarded, "ok" after it was suppressed, and ready_on "ok" has not
\* fired
C28_Witness ==
    /\ cfg[TheService].ReadyOn = OkLower
    /\ written[TheService]["stdout"] = <<OkUpper, OkLower>>
    /\ pipe[TheService]["stdout"] = <<>>
    /\ sink[TheService]["stdout"] = <<OkUpper>>
    /\ sink[TheService]["stderr"] = <<>>
    /\ ~readyOnce[TheService]
    /\ readyCh[TheService] = 0

\* the command is empty or consists of white space only
OnlyWhitespace(command) == command \in {"", Blank}

(***************************************************************************)
(* C26 as stated.  When the command of a service of the resolved order is  *)
(* empty or consists of white space only, no process of any service is     *)
(* ever spawned, and the run fails with the command-required error        *)
(* (unless setting the system limits failed before the preparation).       *)
(***************************************************************************)
C26_AsStated ==
    (\E s \in Range(services) : OnlyWhitespace(cfg[s].Command))
    => /\ \A n \in Names : proc[n] = "none"
       /\ Returned => retErr.kind \in {"prepare", "rlimit"}

\* the await-exit task of s has called quit
QuitCalled(s) == aw[s] \in {"quit", "send", "done"}

C21_AsStated ==
    \A s \in Names :
        reaped[s] # "no" => \A k \in Streams : rdr[s][k] = "done"

\* the cleanupService of s has not run yet, and when cleanup began the process
\* of s had not been spawned (or its Start had failed), or it had exited or
\* been terminated already
GoneBeforeShutdown(s) ==
    atCleanup[s] \in {"none", "failed", "exit0", "exit1", "killed"}

(***************************************************************************)
(* C23 as stated.  For a service whose process was never spawned, or had   *)
(* already exited when the shutdown began (whether or not the await-exit   *)
(* task had reaped it), cleanupService sends no interrupt signal and arms  *)
(* no kill timer, so that no kill signal is sent either.                   *)
(***************************************************************************)
C23_AsStated ==
    [][\A s \in Names :
          GoneBeforeShutdown(s)
          => /\ sigInt'[s] = sigInt[s]
             /\ sigKill'[s] = sigKill[s]
             /\ timer'[s] # "armed"]_vars

\* the step sends a kill signal to the process group of s
KillSent(s) == sigKill'[s] > sigKill[s]

(***************************************************************************)
(* C24 as stated.  A kill signal is sent to the process group of a service *)
(* only after the interrupt signal was sent to it, and only when the       *)
(* process has not exited at the moment the kill timer fires; a process    *)
(* that has exited and been reaped is never sent a kill signal.            *)
(***************************************************************************)
C24_AsStated ==
    /\ [](\A s \in Names : sigKill[s] > 0 => sigInt[s] > 0)
    /\ [][\A s \in Names :
            KillSent(s) => sigInt[s] > 0 /\ Alive(s) /\ reaped[s] = "no"]_vars

\* position of a service in the start order
Position(s) == CHOOSE i \in DOMAIN services : services[i] = s

(***************************************************************************)
(* C25.  When cmd.Start of service k fails, the run goes on to return:     *)
(* it returns the start error of k, no service after k in the order is     *)
(* ever spawned, and when Run has returned every service spawned before k  *)
(* has terminated and been waited for, after an interrupt signal to its    *)
(* process group (followed by a kill signal when the kill timer fired)     *)
(* unless it had exited and been reaped before.                            *)
(***************************************************************************)
C25_StartFailure ==
    \A k \in Range(services) :
        proc[k] = "failed"
        => /\ retErr = ErrStart(k)
           /\ Returned \/ ENABLED ProgramStep
           /\ \A s \in Range(services) :
                 Position(s) > Position(k) => proc[s] = "none"
           /\ Returned =>
                 \A s \in Range(services) :
                     Position(s) < Position(k)
                     => /\ Dead(s)
                        /\ reaped[s] # "no"
                        /\ cl[s] = "done"
                        /\ sigInt[s] > 0 \/ (reaped[s] = "cmd" /\ ~TrapsInt(s))
                        /\ sigKill[s] > 0 => sigInt[s] > 0

\* the start of the second service failed, and Run has returned after the
\* shutdown interrupted the first one
C25_Witness ==
    /\ Returned
    /\ Len(services) = 2
    /\ proc[services[2]] = "failed"
    /\ proc[services[1]] = "killed"
    /\ sigInt[services[1]] > 0
    /\ reaped[services[1]] = "process"

=============================================================================
